---------------------------- MODULE Spec2Model ----------------------------
(***************************************************************************)
(* Model of the partner renewals dashboard (src/app.py).                   *)
(*                                                                         *)
(* Text is a sequence of one-character strings, so that trimming, case     *)
(* folding, character stripping and parsing are computed as the code       *)
(* computes them.  A missing cell (pandas NaN / None) is the value NaN, a   *)
(* missing number or date is the empty tuple, a present number is <<n>>,   *)
(* a present date <<day, minute>>.                                         *)
(* Money and CPL values are held in hundredths.                            *)
(***************************************************************************)
EXTENDS Integers, Sequences, FiniteSets, TLC

VARIABLES
    df,             \* the raw table of the last run (EmptyFrame when none was loaded)
    as_of_date,     \* the as-of date of the last run, as a day number
    resolution,     \* result of the last column resolution
    view,           \* what the last run computed and rendered below the header
    session_state,  \* st.session_state: authenticated, viewer_name
    cache,          \* st.cache_data: the entry of each cached read function
    now,            \* wall clock, seconds
    excel,          \* the Excel file on disk
    sheet,          \* the live Google sheet
    secrets,        \* service-account JSON is configured in env / st.secrets
    page,           \* what the last script run showed
    rerun           \* st.rerun() was called: the script runs again at once

vars == <<df, as_of_date, resolution, view, session_state, cache, now,
          excel, sheet, secrets, page, rerun>>

-----------------------------------------------------------------------------
(* Text primitives *)

None == <<"<None>">>
NaN == <<"<NaN>">>

UpperLetters == <<"A","B","C","D","E","F","G","H","I","J","K","L","M",
                  "N","O","P","Q","R","S","T","U","V","W","X","Y","Z">>
LowerLetters == <<"a","b","c","d","e","f","g","h","i","j","k","l","m",
                  "n","o","p","q","r","s","t","u","v","w","x","y","z">>
Digits == <<"0","1","2","3","4","5","6","7","8","9">>

\* Characters in code-point order (the order Python compares strings in).
CodeOrder == <<" ", "(", ")", ",", "-", ".", "/">> \o Digits \o UpperLetters
             \o <<"_">> \o LowerLetters \o <<"£">>

OrdOf == [c \in {CodeOrder[i] : i \in 1..Len(CodeOrder)} |->
            CHOOSE i \in 1..Len(CodeOrder) : CodeOrder[i] = c]

Ord(c) == OrdOf[c]

InSeq(c, s) == \E i \in 1..Len(s) : s[i] = c

DigitOf == [c \in {Digits[i] : i \in 1..10} |-> (CHOOSE i \in 1..10 : Digits[i] = c) - 1]

IsDigit(c) == c \in DOMAIN DigitOf

DigitVal(c) == DigitOf[c]

IsSpace(c) == c = " "

ToLower == [c \in {UpperLetters[i] : i \in 1..26} |->
                LowerLetters[CHOOSE i \in 1..26 : UpperLetters[i] = c]]

ToUpper == [c \in {LowerLetters[i] : i \in 1..26} |->
                UpperLetters[CHOOSE i \in 1..26 : LowerLetters[i] = c]]

\* str.lower() on one character
LowerChar(c) == IF c \in DOMAIN ToLower THEN ToLower[c] ELSE c

UpperChar(c) == IF c \in DOMAIN ToUpper THEN ToUpper[c] ELSE c

LowerStr(s) == [i \in 1..Len(s) |-> LowerChar(s[i])]

UpperStr(s) == [i \in 1..Len(s) |-> UpperChar(s[i])]

RECURSIVE LStrip(_)
LStrip(s) == IF s # <<>> /\ IsSpace(Head(s)) THEN LStrip(Tail(s)) ELSE s

RECURSIVE RStrip(_)
RStrip(s) ==
    IF s # <<>> /\ IsSpace(s[Len(s)]) THEN RStrip(SubSeq(s, 1, Len(s) - 1)) ELSE s

\* str.strip()
Strip(s) == RStrip(LStrip(s))

\* " ".join(s.split()) on an already stripped string: runs of spaces become one
RECURSIVE CollapseSpaces(_)
CollapseSpaces(s) ==
    IF Len(s) <= 1 THEN s
    ELSE IF IsSpace(s[1]) /\ IsSpace(s[2]) THEN CollapseSpaces(Tail(s))
    ELSE <<s[1]>> \o CollapseSpaces(Tail(s))

\* Python's < on strings: lexicographic by code point, a prefix sorts first
RECURSIVE StrLess(_, _)
StrLess(a, b) ==
    IF b = <<>> THEN FALSE
    ELSE IF a = <<>> THEN TRUE
    ELSE IF a[1] = b[1] THEN StrLess(Tail(a), Tail(b))
    ELSE Ord(a[1]) < Ord(b[1])

\* needle in haystack
Contains(hay, needle) ==
    \E i \in 1..(Len(hay) - Len(needle) + 1) :
        SubSeq(hay, i, i + Len(needle) - 1) = needle

-----------------------------------------------------------------------------
(* Names the program fixes *)

DealershipGroupName ==
    <<"D","e","a","l","e","r","s","h","i","p"," ","G","r","o","u","p"," ","N","a","m","e">>

RENEWAL_COLUMN ==
    <<"A","c","t","u","a","l"," ","r","e","n","e","w","a","l"," ","d","a","t","e">>

RenewalAliases ==
    << <<"A","c","t","u","a","l"," ","R","e","n","e","w","a","l"," ","D","a","t","e">>,
       <<"R","e","n","e","w","a","l"," ","D","a","t","e">>,
       <<"r","e","n","e","w","a","l"," ","d","a","t","e">> >>

CPLColumn == <<"C","P","L">>

CostColumn ==
    <<"M","o","n","t","h","l","y"," ","s","u","b","s","c","r","i","p","t","i","o","n",
      " ","c","o","s","t">>

RiskColumn == <<"R","i","s","k"," ","b","a","n","d","i","n","g">>

RateColumn == <<"C","P","L"," ","o","r"," ","F","l","a","t"," ","R","a","t","e">>

\* df.columns[12]: column M, the 13th
RenewalFallbackIndex == 12

-----------------------------------------------------------------------------
(* Column resolver *)

normalize_colname(name) == CollapseSpaces(LowerStr(Strip(name)))

\* normalized_to_actual.get(key), where normalized[i] is the normalized name
\* of columns[i]: a later header with the same normalized name has replaced
\* an earlier one
NormalizedToActual(columns, normalized, key) ==
    LET hits == {i \in 1..Len(columns) : normalized[i] = key}
    IN  IF hits = {} THEN None
        ELSE columns[CHOOSE i \in hits : \A j \in hits : j <= i]

RECURSIVE FirstMatch(_, _, _)
FirstMatch(columns, normalized, wanted) ==
    IF wanted = <<>> THEN None
    ELSE LET match == NormalizedToActual(columns, normalized,
                                         normalize_colname(Head(wanted)))
         IN  IF match # None /\ match # <<>> THEN match
             ELSE FirstMatch(columns, normalized, Tail(wanted))

resolve_column(columns, target, aliases) ==
    LET normalized == [i \in 1..Len(columns) |-> normalize_colname(columns[i])]
    IN  FirstMatch(columns, normalized, <<target>> \o aliases)

\* a faulty variant: the positional fallback is tried before the names
resolve_renewal_column_position_first(columns) ==
    IF Len(columns) >= RenewalFallbackIndex + 1
    THEN columns[RenewalFallbackIndex + 1]
    ELSE resolve_column(columns, RENEWAL_COLUMN, RenewalAliases)

resolve_renewal_column(columns) ==
    LET resolved == resolve_column(columns, RENEWAL_COLUMN, RenewalAliases)
    IN  IF resolved # None THEN resolved
        ELSE IF Len(columns) >= RenewalFallbackIndex + 1
             THEN columns[RenewalFallbackIndex + 1]
             ELSE None

-----------------------------------------------------------------------------
(* Numbers: pd.to_numeric(..., errors="coerce") *)

NoValue == <<>>

IsNA(v) == v = <<>>

AllDigits(s) == \A i \in 1..Len(s) : IsDigit(s[i])

RECURSIVE DigitsValue(_)
DigitsValue(s) ==
    IF s = <<>> THEN 0
    ELSE 10 * DigitsValue(SubSeq(s, 1, Len(s) - 1)) + DigitVal(s[Len(s)])

\* the fraction digits of a decimal literal, in hundredths (the inputs used
\* here carry at most two fraction digits)
FractionHundredths(f) ==
    IF Len(f) = 0 THEN 0
    ELSE IF Len(f) = 1 THEN 10 * DigitVal(f[1])
    ELSE 10 * DigitVal(f[1]) + DigitVal(f[2])

\* a decimal literal [-]digits[.digits] with at least one digit, surrounding
\* blanks ignored; anything else is not a number
ParseNumber(s) ==
    LET t    == Strip(s)
        neg  == t # <<>> /\ t[1] = "-"
        body == IF neg THEN Tail(t) ELSE t
        dots == {i \in 1..Len(body) : body[i] = "."}
        dot  == IF dots = {} THEN Len(body) + 1 ELSE CHOOSE i \in dots : TRUE
        ip   == SubSeq(body, 1, dot - 1)
        fp   == SubSeq(body, dot + 1, Len(body))
        mag  == 100 * DigitsValue(ip) + FractionHundredths(fp)
    IN  IF Cardinality(dots) <= 1 /\ AllDigits(ip) /\ AllDigits(fp)
           /\ Len(ip) + Len(fp) >= 1
        THEN <<IF neg THEN 0 - mag ELSE mag>>
        ELSE NoValue

to_numeric(cell) == IF cell = NaN THEN NoValue ELSE ParseNumber(cell)

\* Series.astype(str) on one cell
AsStr(cell) == IF cell = NaN THEN <<"n","a","n">> ELSE cell

\* .str.replace(r"[^0-9.-]", "", regex=True)
CostClean(s) == SelectSeq(s, LAMBDA c : IsDigit(c) \/ c = "." \/ c = "-")

-----------------------------------------------------------------------------
(* Dates: a timestamp is <<day, minute>>, the day counted from 1970-01-01   *)
(* and the minute of that day                                              *)

IsLeap(y) == (y % 4 = 0 /\ y % 100 # 0) \/ y % 400 = 0

DaysInMonth(y, m) ==
    IF m = 2 THEN (IF IsLeap(y) THEN 29 ELSE 28)
    ELSE IF m \in {4, 6, 9, 11} THEN 30 ELSE 31

DaysFromCivil(y, m, d) ==
    LET yy  == IF m <= 2 THEN y - 1 ELSE y
        era == yy \div 400
        yoe == yy - era * 400
        mp  == IF m > 2 THEN m - 3 ELSE m + 9
        doy == (153 * mp + 2) \div 5 + d - 1
        doe == yoe * 365 + yoe \div 4 - yoe \div 100 + doy
    IN  era * 146097 + doe - 719468

CivilOrNaT(y, m, d) ==
    IF m \in 1..12 /\ d >= 1 /\ d <= DaysInMonth(y, m)
    THEN <<DaysFromCivil(y, m, d), 0>>
    ELSE NoValue

\* pd.to_datetime(x, format="%Y-%m-%d", errors="coerce") on one cell
ParseISO(cell) ==
    IF cell = NaN \/ Len(cell) # 10 THEN NoValue
    ELSE IF cell[5] = "-" /\ cell[8] = "-"
            /\ AllDigits(SubSeq(cell, 1, 4)) /\ AllDigits(SubSeq(cell, 6, 7))
            /\ AllDigits(SubSeq(cell, 9, 10))
    THEN CivilOrNaT(DigitsValue(SubSeq(cell, 1, 4)), DigitsValue(SubSeq(cell, 6, 7)),
                    DigitsValue(SubSeq(cell, 9, 10)))
    ELSE NoValue

\* the month-first reading MM/DD/YYYY
ParseMonthFirst(cell) ==
    IF cell = NaN \/ Len(cell) # 10 THEN NoValue
    ELSE IF cell[3] = "/" /\ cell[6] = "/"
            /\ AllDigits(SubSeq(cell, 1, 2)) /\ AllDigits(SubSeq(cell, 4, 5))
            /\ AllDigits(SubSeq(cell, 7, 10))
    THEN CivilOrNaT(DigitsValue(SubSeq(cell, 7, 10)), DigitsValue(SubSeq(cell, 1, 2)),
                    DigitsValue(SubSeq(cell, 4, 5)))
    ELSE NoValue

\* the reading YYYY-MM-DD HH:MM, which keeps the time of day
ParseDateTime(cell) ==
    IF cell = NaN \/ Len(cell) # 16 THEN NoValue
    ELSE LET date == ParseISO(SubSeq(cell, 1, 10))
             hh   == SubSeq(cell, 12, 13)
             mm   == SubSeq(cell, 15, 16)
         IN  IF cell[11] = " " /\ cell[14] = ":" /\ AllDigits(hh) /\ AllDigits(mm)
                   /\ ~IsNA(date) /\ DigitsValue(hh) < 24 /\ DigitsValue(mm) < 60
             THEN <<date[1], 60 * DigitsValue(hh) + DigitsValue(mm)>>
             ELSE NoValue

\* pd.to_datetime(x, errors="coerce", dayfirst=False) on one cell, for the
\* spellings used here
ParseFallback(cell) ==
    IF ParseISO(cell) # NoValue THEN ParseISO(cell)
    ELSE IF ParseDateTime(cell) # NoValue THEN ParseDateTime(cell)
    ELSE ParseMonthFirst(cell)

\* parsed_iso.fillna(parsed_fallback)
FillNA(a, b) == IF IsNA(a) THEN b ELSE a

RenewalDateWorking(cell) == FillNA(ParseISO(cell), ParseFallback(cell))

-----------------------------------------------------------------------------
(* Tables.  A table is [columns, rows]: the header list and, per row, one     *)
(* cell per column.                                                          *)

EmptyFrame == [columns |-> <<>>, rows |-> <<>>]

HasColumn(columns, name) == \E i \in 1..Len(columns) : columns[i] = name

ColIndex(columns, name) ==
    CHOOSE i \in 1..Len(columns) :
        columns[i] = name /\ \A j \in 1..(i - 1) : columns[j] # name

CellOf(columns, row, name) == row[ColIndex(columns, name)]

\* sort keys are <<int, ..., int, string>>, compared left to right
RECURSIVE KeyLess(_, _)
KeyLess(a, b) ==
    IF Len(a) = 1 THEN StrLess(a[1], b[1])
    ELSE IF a[1] = b[1] THEN KeyLess(Tail(a), Tail(b))
    ELSE a[1] < b[1]

\* DataFrame.sort_values on several columns: stable, ascending.  keys[i] is
\* the sort key of rows[i]; the result lists the positions in sorted order.
SortedPositions(keys) ==
    LET Ins(sorted, i) ==
            LET n == Cardinality({j \in 1..Len(sorted) :
                                     ~KeyLess(keys[i], keys[sorted[j]])})
            IN  SubSeq(sorted, 1, n) \o <<i>> \o SubSeq(sorted, n + 1, Len(sorted))
        f[i \in 0..Len(keys)] == IF i = 0 THEN <<>> ELSE Ins(f[i - 1], i)
    IN  f[Len(keys)]

StableSort(rows, keys) ==
    LET order == SortedPositions(keys)
    IN  [i \in 1..Len(rows) |-> rows[order[i]]]

-----------------------------------------------------------------------------
(* normalize_partners *)

FACEBOOK_COHORT == "Facebook Group cohort"
OTHER_COHORT == "All Other Partners"

\* a faulty variant: 18 is left out of the Facebook values
CohortOfFifteenOnly(v) == IF v = <<1500>> THEN FACEBOOK_COHORT ELSE OTHER_COHORT

\* lambda v: FACEBOOK_COHORT if v in (15.0, 18.0) else OTHER_COHORT
CohortOf(v) == IF v \in {<<1500>>, <<1800>>} THEN FACEBOOK_COHORT ELSE OTHER_COHORT

RenameColumn(columns, from, to) ==
    [i \in 1..Len(columns) |-> IF columns[i] = from THEN to ELSE columns[i]]

\* a faulty variant: a cost without a value is stored as zero
CleanedCostZeroed(columns, row) ==
    LET v == IF HasColumn(columns, CostColumn)
             THEN ParseNumber(CostClean(AsStr(CellOf(columns, row, CostColumn))))
             ELSE NoValue
    IN  IF IsNA(v) THEN <<0>> ELSE v

\* lines 121-129: the cleaned monthly cost of one row
CleanedCost(columns, row) ==
    IF HasColumn(columns, CostColumn)
    THEN ParseNumber(CostClean(AsStr(CellOf(columns, row, CostColumn))))
    ELSE NoValue

\* the derived columns of one row (lines 109-129)
Enrich(columns, renewal_col, row, i) ==
    LET cpl == IF HasColumn(columns, CPLColumn)
               THEN to_numeric(CellOf(columns, row, CPLColumn))
               ELSE NoValue
    IN  [src          |-> i,
         cells        |-> row,
         name         |-> CellOf(columns, row, DealershipGroupName),
         renewal      |-> RenewalDateWorking(CellOf(columns, row, renewal_col)),
         cpl_numeric  |-> cpl,
         cohort       |-> IF HasColumn(columns, CPLColumn) THEN CohortOf(cpl)
                          ELSE OTHER_COHORT,
         cost_numeric |-> CleanedCost(columns, row),
         days         |-> 0]

\* out.dropna(subset=["Dealership Group Name", "Renewal Date (Working)"])
DropNA(rows) == SelectSeq(rows, LAMBDA r : r.name # NaN /\ ~IsNA(r.renewal))

\* a faulty variant: the days are counted from the as-of date of the run before
DaysFromPreviousAsOf(r, as_of) == r.renewal[1] - as_of_date

\* (out["Renewal Date (Working)"].dt.normalize() - as_of_date).dt.days
DaysToRenewal(r, as_of) == r.renewal[1] - as_of

\* sort_values(["Renewal Date (Working)", "Dealership Group Name"]): the
\* working date is the whole timestamp
RenewalNameKey(r) == <<r.renewal[1], r.renewal[2], r.name>>

normalize_partners(d, as_of) ==
    LET partner_col == resolve_column(d.columns, DealershipGroupName, <<>>)
        columns     == RenameColumn(d.columns, partner_col, DealershipGroupName)
        renewal_col == resolve_renewal_column(columns)
        enriched    == [i \in 1..Len(d.rows) |-> Enrich(columns, renewal_col, d.rows[i], i)]
        kept        == DropNA(enriched)
        dated       == [i \in 1..Len(kept) |->
                            [kept[i] EXCEPT !.days = DaysToRenewal(kept[i], as_of)]]
    IN  IF partner_col = None \/ renewal_col = None
        THEN [error |-> "KeyError", columns |-> <<>>, rows |-> <<>>]
        ELSE [error |-> "", columns |-> columns,
              rows |-> StableSort(dated,
                                  [i \in 1..Len(dated) |-> RenewalNameKey(dated[i])])]

-----------------------------------------------------------------------------
(* apply_filters *)

SeqRange(q) == {q[i] : i \in 1..Len(q)}

RiskCol(t) == resolve_column(t.columns, RiskColumn, <<>>)

RiskValue(t, risk_col, r) == Strip(AsStr(CellOf(t.columns, r.cells, risk_col)))

\* the choices of the "Risk banding" multiselect; all are selected by default
risk_options(t) ==
    LET risk_col == RiskCol(t)
    IN  IF risk_col = None \/ risk_col = <<>> THEN {}
        ELSE {RiskValue(t, risk_col, r) : r \in SeqRange(t.rows)} \ {<<>>}

RiskFilter(t, selected_risk) ==
    LET risk_col == RiskCol(t)
    IN  IF risk_col = None \/ risk_col = <<>> \/ selected_risk = {} THEN t
        ELSE [t EXCEPT !.rows = SelectSeq(t.rows,
                  LAMBDA r : RiskValue(t, risk_col, r) \in selected_risk)]

\* the choices of the "CPL or Flat Rate" multiselect; all are selected by default
rate_options(t) ==
    IF ~HasColumn(t.columns, RateColumn) THEN {}
    ELSE {AsStr(CellOf(t.columns, r.cells, RateColumn)) :
            r \in {x \in SeqRange(t.rows) : CellOf(t.columns, x.cells, RateColumn) # NaN}}

RateFilter(t, selected) ==
    IF ~HasColumn(t.columns, RateColumn) \/ selected = {} THEN t
    ELSE [t EXCEPT !.rows = SelectSeq(t.rows,
              LAMBDA r : AsStr(CellOf(t.columns, r.cells, RateColumn)) \in selected)]

\* .str.contains(query, case=False, na=False) for a query without regex syntax
QueryFilter(t, query) ==
    IF query = <<>> THEN t
    ELSE [t EXCEPT !.rows = SelectSeq(t.rows,
              LAMBDA r : Contains(LowerStr(AsStr(r.name)), LowerStr(query)))]

apply_filters(t, selected_risk, selected, query) ==
    QueryFilter(RateFilter(RiskFilter(t, selected_risk), selected), query)

-----------------------------------------------------------------------------
(* Buckets, aggregation, presentation *)

\* a faulty variant: the lower end of the range is excluded
renewal_bucket_exclusive(rows, min_days, max_days) ==
    SelectSeq(rows, LAMBDA r : r.days > min_days /\ r.days <= max_days)

renewal_bucket(rows, min_days, max_days) ==
    SelectSeq(rows, LAMBDA r : r.days >= min_days /\ r.days <= max_days)

BucketNames == {"overdue", "in_30", "in_60", "in_90", "over_90"}

\* main, lines 385-389
Buckets(rows) ==
    [b \in BucketNames |->
        CASE b = "overdue" -> SelectSeq(rows, LAMBDA r : r.days < 0)
          [] b = "in_30"   -> renewal_bucket(rows, 0, 30)
          [] b = "in_60"   -> renewal_bucket(rows, 31, 60)
          [] b = "in_90"   -> renewal_bucket(rows, 61, 90)
          [] b = "over_90" -> SelectSeq(rows, LAMBDA r : r.days > 90)]

\* Series.fillna(0) on one value
FillZero(v) == IF IsNA(v) THEN 0 ELSE v[1]

\* bucket["Monthly subscription cost numeric"].fillna(0).sum()
RECURSIVE RevenueSum(_)
RevenueSum(rows) ==
    IF rows = <<>> THEN 0 ELSE FillZero(Head(rows).cost_numeric) + RevenueSum(Tail(rows))

\* Python round(): to the nearest whole unit, a tie goes to the even one
RoundHalfEven(v) ==
    LET q == v \div 100
        r == v % 100
    IN  IF r < 50 THEN q
        ELSE IF r > 50 THEN q + 1
        ELSE IF q % 2 = 0 THEN q ELSE q + 1

RECURSIVE NatToStr(_)
NatToStr(n) ==
    IF n < 10 THEN <<Digits[n + 1]>> ELSE NatToStr(n \div 10) \o <<Digits[(n % 10) + 1]>>

\* the "," format option: a comma before every group of three digits
RECURSIVE Grouped(_)
Grouped(ds) ==
    IF Len(ds) <= 3 THEN ds
    ELSE Grouped(SubSeq(ds, 1, Len(ds) - 3)) \o <<",">> \o SubSeq(ds, Len(ds) - 2, Len(ds))

format_currency(value) ==
    LET n == RoundHalfEven(value)
    IN  <<"£">> \o (IF n < 0 THEN <<"-">> \o Grouped(NatToStr(0 - n))
                   ELSE Grouped(NatToStr(n)))

\* the date column of the table is the timestamp's .dt.date
DaysDateNameKey(r) == <<r.days, r.renewal[1], AsStr(r.name)>>

\* the table shown and exported by display_partner_table (<<>> when the
\* bucket is empty and only the notice is shown)
display_partner_table(rows) ==
    StableSort(rows, [i \in 1..Len(rows) |-> DaysDateNameKey(rows[i])])

Cohorts == {FACEBOOK_COHORT, OTHER_COHORT}

InCohort(rows, c) == SelectSeq(rows, LAMBDA r : r.cohort = c)

\* display_bucket_by_cohort: the counts and the two tables
display_bucket_by_cohort(rows) ==
    [counts |-> [c \in Cohorts |-> Len(InCohort(rows, c))],
     tables |-> [c \in Cohorts |-> display_partner_table(InCohort(rows, c))]]

NoView ==
    [normalized |-> FALSE, partners |-> <<>>, filtered |-> <<>>,
     buckets |-> [b \in BucketNames |-> <<>>],
     revenue |-> [b \in BucketNames |-> <<>>],
     by_cohort |-> [b \in BucketNames |-> display_bucket_by_cohort(<<>>)]]

\* main, lines 383-465, on the table normalize_partners returned
Dashboard(partners, selected_risk, selected, query) ==
    LET filtered == apply_filters(partners, selected_risk, selected, query)
        buckets  == Buckets(filtered.rows)
    IN  [normalized |-> TRUE,
         partners   |-> partners.rows,
         filtered   |-> filtered.rows,
         buckets    |-> buckets,
         revenue    |-> [b \in BucketNames |-> format_currency(RevenueSum(buckets[b]))],
         by_cohort  |-> [b \in BucketNames |-> display_bucket_by_cohort(buckets[b])]]

-----------------------------------------------------------------------------
(* The column check of main and what a run shows *)

NoResolution == [ran |-> {}, partner_col |-> None, renewal_col |-> None]

\* a faulty variant: only the partner column is checked
MissingPartnerOnly(partner_col, renewal_col) ==
    IF partner_col = None THEN <<DealershipGroupName>> ELSE <<>>

\* main, lines 370-374
MissingColumns(partner_col, renewal_col) ==
    (IF partner_col = None THEN <<DealershipGroupName>> ELSE <<>>)
    \o (IF renewal_col = None THEN <<RENEWAL_COLUMN>> ELSE <<>>)

\* what the user may type into "Partner name contains"
Queries == {<<>>, <<"a">>}

NoInputs ==
    [source |-> "", as_of |-> 0, sheet_id |-> <<>>, creds_mode |-> "", creds_file_exists |-> FALSE,
     file_exists |-> FALSE, name |-> <<>>, pin |-> <<>>, submit |-> FALSE]

\* What a script run showed.  kind: "login" (the form), "header" (the run
\* ended at st.rerun()), "error" (st.error then st.stop), "exception" (an
\* uncaught exception, shown by the framework), "dashboard".  read: where the
\* raw table came from; cache_age: the age of the entry when served from the
\* cache; signed_in: the authenticated flag when the run began.
BlankPage ==
    [kind |-> "none", error |-> "", missing |-> <<>>, found |-> <<>>,
     read |-> "none", cache_age |-> 0, signed_in |-> FALSE, viewer |-> <<>>,
     inputs |-> NoInputs]

\* main, lines 368-465: resolve the required columns, stop with a report when
\* one is missing, else normalize, filter, bucket and render
Render(d, as_of, base, queries) ==
    LET partner_col == resolve_column(d.columns, DealershipGroupName, <<>>)
        renewal_col == resolve_renewal_column(d.columns)
        missing     == MissingColumns(partner_col, renewal_col)
    IN  /\ df' = d
        /\ as_of_date' = as_of
        /\ resolution' = [ran |-> {"partner", "renewal"},
                          partner_col |-> partner_col, renewal_col |-> renewal_col]
        /\ IF missing # <<>>
           THEN /\ view' = NoView
                /\ page' = [base EXCEPT !.kind = "error", !.error = "missing_columns",
                                         !.missing = missing, !.found = d.columns]
           ELSE \E partners \in {normalize_partners(d, as_of)} :
                  \E selected_risk \in {risk_options(partners), {}}
                                        \cup {{o} : o \in risk_options(partners)} :
                    \E byrisk \in {RiskFilter(partners, selected_risk)} :
                      \E selected \in {rate_options(byrisk), {}}
                                       \cup {{o} : o \in rate_options(byrisk)} :
                        \E query \in queries :
                            IF partners.error # ""
                            THEN /\ view' = NoView
                                 /\ page' = [base EXCEPT !.kind = "exception",
                                                          !.error = partners.error]
                            ELSE /\ view' = Dashboard(partners, selected_risk,
                                                      selected, query)
                                 /\ page' = [base EXCEPT !.kind = "dashboard"]

-----------------------------------------------------------------------------
(* Input tables *)

MaxColumns == 14
MaxRows == 2

\* a header that matches no name the program looks for
Filler(i) == [k \in 1..i |-> "x"]

\* the same name with the blanks a hand-edited sheet carries
Padded(h) ==
    LET Twice(t) == IF t = " " THEN <<" ", " ">> ELSE <<t>>
        f[i \in 0..Len(h)] == IF i = 0 THEN <<>> ELSE f[i - 1] \o Twice(h[i])
    IN  <<" ">> \o f[Len(h)] \o <<" ">>

DriftedPartner == <<"P","a","r","t","n","e","r">>
DriftedRenewal == <<"R","e","n","e","w","a","l">>

PartnerHeaders == {DealershipGroupName, UpperStr(DealershipGroupName),
                   Padded(DealershipGroupName), DriftedPartner}

RenewalHeaders == {RENEWAL_COLUMN, RenewalAliases[2], Padded(UpperStr(RENEWAL_COLUMN)),
                   DriftedRenewal}

\* n headers: the partner header at p, the renewal header at r, an alias of
\* the renewal name at a (0: not there), fillers elsewhere
HeaderList(n, p, ph, r, rh, a) ==
    [i \in 1..n |-> IF i = p THEN ph
                    ELSE IF i = r THEN rh
                    ELSE IF i = a THEN RenewalAliases[3]
                    ELSE Filler(i)]

HeaderLists ==
    {HeaderList(n, p, ph, r, rh, a) :
        n \in 0..MaxColumns, p \in {0, 1}, ph \in PartnerHeaders,
        r \in {0, 2, MaxColumns - 1}, rh \in RenewalHeaders, a \in {0, 3}}

\* Rows of the pipeline's inputs, by logical field.
Txt_A == <<"A">>
Txt_B == <<"B">>
Txt_ab == <<"a","b">>
Txt_Empty == <<>>
Txt_Blank == <<" ">>
Txt_NA == <<"N","/","A">>

Row(name, renewal, cpl, cost, risk, rate) ==
    [name |-> name, renewal |-> renewal, cpl |-> cpl, cost |-> cost,
     risk |-> risk, rate |-> rate, filler |-> Txt_Empty]

RowPool ==
    { Row(Txt_A, <<"2","0","2","4","-","0","1","-","0","1">>, <<"1","5">>,
          <<"£","1","0","0">>, <<"H","i","g","h">>, <<"C","P","L">>),
      Row(Txt_B, <<"2","0","2","4","-","0","2","-","1","5"," ","0","8",":","0","0">>,
          <<"7">>, Txt_Empty, <<"L","o","w">>, <<"F","l","a","t">>),
      Row(Txt_Empty, <<"2","0","2","4","-","0","1","-","1","0">>, <<"1","8",".","0">>,
          <<"£","1",",","2","5","0",".","5","0">>, Txt_Empty, NaN),
      Row(NaN, <<"2","0","2","4","-","0","3","-","1","0">>, <<"1","5">>,
          <<"5","0">>, <<"L","o","w">>, <<"C","P","L">>),
      Row(Txt_ab, <<"0","3","/","1","5","/","2","0","2","4">>, Txt_NA,
          Txt_NA, NaN, <<"F","l","a","t">>),
      Row(Txt_B, <<"n","o","t","-","a","-","d","a","t","e">>, <<"1","8">>,
          <<"7","5">>, <<"H","i","g","h">>, <<"C","P","L">>),
      Row(Txt_Blank, <<"2","0","2","4","-","0","4","-","1","0">>, NaN,
          <<"1","2",".","5","0">>, <<" ","L","o","w"," ">>, <<"C","P","L">>),
      Row(Txt_A, <<"2","0","2","4","-","0","2","-","1","5"," ","0","9",":","3","0">>,
          <<"1","5",".","5">>,
          <<"-","2","0">>, <<"H","i","g","h">>, NaN),
      Row(Txt_A, NaN, <<"1","5">>, <<"9","9">>, <<"L","o","w">>, <<"F","l","a","t">>) }

\* a layout: per column, its header and the logical field held there
FullLayout ==
    << <<DealershipGroupName, "name">>, <<RENEWAL_COLUMN, "renewal">>,
       <<CPLColumn, "cpl">>, <<CostColumn, "cost">>, <<RiskColumn, "risk">>,
       <<RateColumn, "rate">> >>

AliasLayout ==
    << <<LowerStr(DealershipGroupName), "name">>, <<CostColumn, "cost">>,
       <<RenewalAliases[2], "renewal">> >>

\* headers have drifted; the renewal date is still in column M
PositionalLayout ==
    [i \in 1..13 |-> IF i = 1 THEN <<DealershipGroupName, "name">>
                     ELSE IF i = 2 THEN <<CPLColumn, "cpl">>
                     ELSE IF i = 13 THEN <<DriftedRenewal, "renewal">>
                     ELSE <<Filler(i), "filler">>]

NoPartnerLayout == << <<DriftedPartner, "name">>, <<RENEWAL_COLUMN, "renewal">> >>

NoRenewalLayout == << <<DealershipGroupName, "name">>, <<DriftedRenewal, "renewal">> >>

Layouts == {FullLayout, AliasLayout, PositionalLayout, NoPartnerLayout, NoRenewalLayout}

BuildTable(layout, rows) ==
    [columns |-> [i \in 1..Len(layout) |-> layout[i][1]],
     rows    |-> [k \in 1..Len(rows) |->
                    [i \in 1..Len(layout) |-> rows[k][layout[i][2]]]]]

RowSeqs == UNION {[1..n -> RowPool] : n \in 0..MaxRows}

Tables == {BuildTable(l, rs) : l \in Layouts, rs \in RowSeqs}

AsOfDates == {DaysFromCivil(2024, 1, 10), DaysFromCivil(2024, 4, 10)}

-----------------------------------------------------------------------------
(* Specifications *)

NoSession == [authenticated |-> FALSE, viewer_name |-> <<>>]

NoEntry == [present |-> FALSE, value |-> EmptyFrame, stored_at |-> 0]

EmptyCache == [file |-> NoEntry, live |-> NoEntry]

Idle ==
    /\ session_state = NoSession
    /\ cache = EmptyCache
    /\ now = 0
    /\ excel = [exists |-> FALSE, readable |-> FALSE, content |-> EmptyFrame]
    /\ sheet = [reachable |-> FALSE, values |-> <<>>]
    /\ secrets = FALSE
    /\ rerun = FALSE

\* SpecResolve: the column resolver on header lists

InitResolve ==
    /\ df \in {[columns |-> h, rows |-> <<>>] : h \in HeaderLists}
    /\ as_of_date = 0
    /\ resolution = NoResolution
    /\ view = NoView
    /\ page = BlankPage
    /\ Idle

ResolvePartner ==
    /\ "partner" \notin resolution.ran
    /\ resolution' = [resolution EXCEPT
            !.ran = @ \cup {"partner"},
            !.partner_col = resolve_column(df.columns, DealershipGroupName, <<>>)]
    /\ UNCHANGED <<df, as_of_date, view, session_state, cache, now, excel, sheet,
                   secrets, page, rerun>>

ResolveRenewal ==
    /\ "renewal" \notin resolution.ran
    /\ resolution' = [resolution EXCEPT
            !.ran = @ \cup {"renewal"},
            !.renewal_col = resolve_renewal_column(df.columns)]
    /\ UNCHANGED <<df, as_of_date, view, session_state, cache, now, excel, sheet,
                   secrets, page, rerun>>

NextResolve == ResolvePartner \/ ResolveRenewal

SpecResolve == InitResolve /\ [][NextResolve]_vars

\* SpecPipeline: main from the column check on, over input tables, as-of
\* dates and filter choices

InitPipeline ==
    /\ df \in Tables
    /\ as_of_date = 0
    /\ resolution = NoResolution
    /\ view = NoView
    /\ page = BlankPage
    /\ Idle

RunPipeline ==
    /\ page.kind = "none"
    /\ \E as_of \in AsOfDates : Render(df, as_of, BlankPage, Queries)
    /\ UNCHANGED <<session_state, cache, now, excel, sheet, secrets, rerun>>

NextPipeline == RunPipeline

SpecPipeline == InitPipeline /\ [][NextPipeline]_vars

-----------------------------------------------------------------------------
(* Reading the sources *)

\* df.dropna(axis=1, how="all"): a column stays when some row has a value in it
DropEmptyColumns(d) ==
    LET keep == {i \in 1..Len(d.columns) : \E k \in 1..Len(d.rows) : d.rows[k][i] # NaN}
        kept == SelectSeq([i \in 1..Len(d.columns) |-> i], LAMBDA i : i \in keep)
    IN  [columns |-> [j \in 1..Len(kept) |-> d.columns[kept[j]]],
         rows    |-> [k \in 1..Len(d.rows) |-> [j \in 1..Len(kept) |-> d.rows[k][kept[j]]]]]

\* df.dropna(how="all").reset_index(drop=True)
DropEmptyRows(d) ==
    [d EXCEPT !.rows = SelectSeq(d.rows, LAMBDA r : \E i \in 1..Len(r) : r[i] # NaN)]

StripHeaders(d) == [d EXCEPT !.columns = [i \in 1..Len(d.columns) |-> Strip(d.columns[i])]]

\* read_partner_sheet, on what pd.read_excel returned
read_partner_sheet(content) == DropEmptyRows(StripHeaders(DropEmptyColumns(content)))

\* read_partner_sheet_live: raises without credentials or when the sheet cannot
\* be opened, else builds the table from ws.get_all_values()
read_partner_sheet_live(sh, credentials_path, credentials_json) ==
    IF credentials_json = None /\ credentials_path = None
    THEN [raised |-> TRUE, df |-> EmptyFrame]
    ELSE IF ~sh.reachable THEN [raised |-> TRUE, df |-> EmptyFrame]
    ELSE IF sh.values = <<>> THEN [raised |-> FALSE, df |-> EmptyFrame]
    ELSE [raised |-> FALSE,
          df |-> DropEmptyRows(DropEmptyColumns(
                    [columns |-> [i \in 1..Len(sh.values[1]) |-> Strip(sh.values[1][i])],
                     rows    |-> Tail(sh.values)]))]

\* ttl=60 of st.cache_data on read_partner_sheet_live
TTL == 60

\* an entry of a cache with a ttl is served while it is younger than the ttl
Fresh(entry, ttl) == entry.present /\ now - entry.stored_at < ttl

-----------------------------------------------------------------------------
(* Login *)

ALLOWED_NAME == <<"A","l","y","x">>
ALLOWED_PIN == <<"1","0","2","0">>

\* a faulty variant: the name or the PIN alone lets the visitor in
LoginOutcomeEither(name, pin) ==
    IF Strip(name) = <<>> THEN "Name is required."
    ELSE IF Strip(name) # ALLOWED_NAME /\ pin # ALLOWED_PIN THEN "Invalid name or PIN."
    ELSE "ok"

\* require_login, lines 270-277: what a submission of the form leads to
LoginOutcome(name, pin) ==
    IF Strip(name) = <<>> THEN "Name is required."
    ELSE IF Strip(name) # ALLOWED_NAME \/ pin # ALLOWED_PIN THEN "Invalid name or PIN."
    ELSE "ok"

-----------------------------------------------------------------------------
(* SpecMain: script runs of main in one session *)

TickSeconds == 45
MaxClock == 90

LiveSource == "Google Sheet (Live)"
ExcelSource == "Local Excel"
JsonMode == "Streamlit/Env JSON"
PathMode == "Local JSON file path"

Names == {ALLOWED_NAME, <<" ">> \o ALLOWED_NAME \o <<" ">>, LowerStr(ALLOWED_NAME),
          <<>>, <<" ">>}
Pins == {ALLOWED_PIN, <<"1","2","3","4">>, <<>>}

SheetIds == {<<" ">>, <<"s","1">>}

ExampleRows ==
    << Row(Txt_A, <<"2","0","2","4","-","0","1","-","0","1">>, <<"1","5">>,
           <<"£","1","0","0">>, NaN, NaN),
       Row(Txt_B, <<"2","0","2","4","-","0","2","-","1","5">>, <<"7">>,
           Txt_Empty, NaN, NaN) >>

SheetLayout ==
    << <<Padded(DealershipGroupName), "name">>, <<RenewalAliases[2], "renewal">>,
       <<CPLColumn, "cpl">>, <<CostColumn, "cost">> >>

ValuesOf(t) == <<t.columns>> \o t.rows

GoodSheet == [reachable |-> TRUE, values |-> ValuesOf(BuildTable(SheetLayout, ExampleRows))]

\* the renewal header has drifted and the sheet has fewer than 13 columns
DriftedSheet ==
    [reachable |-> TRUE, values |-> ValuesOf(BuildTable(NoRenewalLayout, ExampleRows))]

DownSheet == [reachable |-> FALSE, values |-> <<>>]

GoodExcel ==
    [exists |-> TRUE, readable |-> TRUE,
     content |-> BuildTable(FullLayout, ExampleRows)]

\* the partner names were never filled in: the column is empty
NamelessExcel ==
    [exists |-> TRUE, readable |-> TRUE,
     content |-> BuildTable(FullLayout,
                    << Row(NaN, <<"2","0","2","4","-","0","1","-","0","1">>,
                           <<"1","5">>, <<"5","0">>, NaN, NaN) >>)]

\* the workbook is there but cannot be read (no such sheet, not a workbook)
BrokenExcel == [exists |-> TRUE, readable |-> FALSE, content |-> EmptyFrame]

NoExcel == [exists |-> FALSE, readable |-> FALSE, content |-> EmptyFrame]

Environments ==
    {[excel |-> e, sheet |-> GoodSheet, secrets |-> TRUE] :
        e \in {GoodExcel, NamelessExcel, BrokenExcel, NoExcel}}
    \cup {[excel |-> GoodExcel, sheet |-> sh, secrets |-> b] :
            sh \in {GoodSheet, DriftedSheet, DownSheet}, b \in BOOLEAN}

InitMain ==
    /\ \E env \in Environments :
          /\ excel = env.excel
          /\ sheet = env.sheet
          /\ secrets = env.secrets
    /\ session_state = NoSession
    /\ cache = EmptyCache
    /\ now = 0
    /\ rerun = FALSE
    /\ df = EmptyFrame
    /\ as_of_date = 0
    /\ resolution = NoResolution
    /\ view = NoView
    /\ page = BlankPage

NothingRendered ==
    /\ df' = EmptyFrame
    /\ as_of_date' = 0
    /\ resolution' = NoResolution
    /\ view' = NoView

LoginPage(name, pin, submit, error) ==
    [BlankPage EXCEPT !.kind = "login", !.error = error,
                      !.signed_in = session_state.authenticated,
                      !.inputs = [NoInputs EXCEPT !.name = name, !.pin = pin,
                                                  !.submit = submit]]

\* a run by a visitor who is not signed in and does not press Login:
\* require_login shows the form and stops the script
ShowLogin ==
    /\ ~session_state.authenticated
    /\ page' = LoginPage(<<>>, <<>>, FALSE, "")
    /\ rerun' = FALSE
    /\ NothingRendered
    /\ UNCHANGED <<session_state, cache, now, excel, sheet, secrets>>

\* the visitor presses Login (lines 269-279)
SubmitLogin ==
    /\ ~session_state.authenticated
    /\ ~rerun
    /\ \E name \in Names, pin \in Pins :
          LET outcome == LoginOutcome(name, pin)
          IN  IF outcome = "ok"
              THEN /\ session_state' = [authenticated |-> TRUE,
                                        viewer_name |-> ALLOWED_NAME]
                   /\ rerun' = TRUE
                   /\ page' = LoginPage(name, pin, TRUE, "")
              ELSE /\ UNCHANGED session_state
                   /\ rerun' = FALSE
                   /\ page' = LoginPage(name, pin, TRUE, outcome)
    /\ NothingRendered
    /\ UNCHANGED <<cache, now, excel, sheet, secrets>>

SignedInPage ==
    [BlankPage EXCEPT !.kind = "header", !.signed_in = session_state.authenticated,
                      !.viewer = session_state.viewer_name]

\* the signed-in user presses Logout (lines 293-296)
Logout ==
    /\ session_state.authenticated
    /\ ~rerun
    /\ session_state' = [authenticated |-> FALSE, viewer_name |-> <<>>]
    /\ rerun' = TRUE
    /\ page' = SignedInPage
    /\ NothingRendered
    /\ UNCHANGED <<cache, now, excel, sheet, secrets>>

\* the signed-in user, on the live source, presses "Refresh live data now"
\* (lines 330-332): st.cache_data.clear() empties every cache
RefreshLive ==
    /\ session_state.authenticated
    /\ ~rerun
    /\ cache' = EmptyCache
    /\ rerun' = TRUE
    /\ page' = [SignedInPage EXCEPT !.inputs.source = LiveSource]
    /\ NothingRendered
    /\ UNCHANGED <<session_state, now, excel, sheet, secrets>>

Stopped(base, as_of, kind, error) ==
    /\ page' = [base EXCEPT !.kind = kind, !.error = error]
    /\ df' = EmptyFrame
    /\ as_of_date' = as_of
    /\ resolution' = NoResolution
    /\ view' = NoView

\* a run of the signed-in user on the live source (lines 307-359, 368-465)
ViewLive ==
    /\ session_state.authenticated
    /\ \E as_of \in AsOfDates, sheet_id \in SheetIds,
          creds \in {[mode |-> JsonMode, file |-> FALSE], [mode |-> PathMode, file |-> FALSE]}
                    \cup (IF secrets THEN {} ELSE {[mode |-> PathMode, file |-> TRUE]}) :
          LET base == [SignedInPage EXCEPT
                          !.inputs = [NoInputs EXCEPT !.source = LiveSource, !.as_of = as_of,
                                         !.sheet_id = sheet_id, !.creds_mode = creds.mode,
                                         !.creds_file_exists = creds.file]]
              credentials_path == IF creds.mode = PathMode THEN <<"p">> ELSE None
              credentials_json == IF secrets THEN <<"j">> ELSE None
          IN  IF Strip(sheet_id) = <<>>
              THEN Stopped(base, as_of, "error", "Google Sheet ID is required.")
                   /\ UNCHANGED cache
              ELSE IF creds.mode = PathMode /\ ~creds.file
              THEN Stopped(base, as_of, "error", "Credentials file not found")
                   /\ UNCHANGED cache
              ELSE IF creds.mode # PathMode /\ ~secrets
              THEN Stopped(base, as_of, "error", "Missing credentials in Streamlit secrets.")
                   /\ UNCHANGED cache
              ELSE IF Fresh(cache.live, TTL)
              THEN /\ UNCHANGED cache
                   /\ Render(cache.live.value, as_of,
                             [base EXCEPT !.read = "live_cache",
                                          !.cache_age = now - cache.live.stored_at],
                             {<<>>})
              ELSE \E got \in {read_partner_sheet_live(sheet, credentials_path,
                                                       credentials_json)} :
                     IF got.raised
                     THEN /\ Stopped([base EXCEPT !.read = "live_failed"], as_of, "error",
                                     "Could not read live Google Sheet")
                          /\ UNCHANGED cache
                     ELSE /\ cache' = [cache EXCEPT !.live =
                                 [present |-> TRUE, value |-> got.df, stored_at |-> now]]
                          /\ Render(got.df, as_of, [base EXCEPT !.read = "live_read"],
                                    {<<>>})
    /\ rerun' = FALSE
    /\ UNCHANGED <<session_state, now, excel, sheet, secrets>>

\* a run of the signed-in user on the Excel source (lines 360-366, 368-465)
ViewExcel ==
    /\ session_state.authenticated
    /\ \E as_of \in AsOfDates, typed_default \in BOOLEAN :
          LET file_exists == typed_default /\ excel.exists
              base == [SignedInPage EXCEPT
                          !.inputs = [NoInputs EXCEPT !.source = ExcelSource, !.as_of = as_of,
                                                      !.file_exists = file_exists]]
          IN  IF ~file_exists
              THEN Stopped(base, as_of, "error", "File not found") /\ UNCHANGED cache
              ELSE IF cache.file.present
              THEN /\ UNCHANGED cache
                   /\ Render(cache.file.value, as_of,
                             [base EXCEPT !.read = "file_cache",
                                          !.cache_age = now - cache.file.stored_at],
                             {<<>>})
              ELSE IF ~excel.readable
              THEN Stopped([base EXCEPT !.read = "file_failed"], as_of, "exception",
                           "read_excel raised")
                   /\ UNCHANGED cache
              ELSE \E got \in {read_partner_sheet(excel.content)} :
                     /\ cache' = [cache EXCEPT !.file =
                            [present |-> TRUE, value |-> got, stored_at |-> now]]
                     /\ Render(got, as_of, [base EXCEPT !.read = "file_read"], {<<>>})
    /\ rerun' = FALSE
    /\ UNCHANGED <<session_state, now, excel, sheet, secrets>>

\* time passes between two runs
Tick ==
    /\ ~rerun
    /\ now + TickSeconds <= MaxClock
    /\ now' = now + TickSeconds
    /\ UNCHANGED <<df, as_of_date, resolution, view, session_state, cache, excel,
                   sheet, secrets, page, rerun>>

NextMain ==
    \/ ShowLogin
    \/ SubmitLogin
    \/ Logout
    \/ RefreshLive
    \/ ViewLive
    \/ ViewExcel
    \/ Tick

SpecMain == InitMain /\ [][NextMain]_vars

-----------------------------------------------------------------------------
(* Properties of the column resolver (SpecResolve) *)

\* the words of a name, case-folded: two names match when these agree
RECURSIVE NameWords(_, _)
NameWords(s, word) ==
    IF s = <<>> THEN (IF word = <<>> THEN <<>> ELSE <<word>>)
    ELSE IF Head(s) = " "
         THEN (IF word = <<>> THEN <<>> ELSE <<word>>) \o NameWords(Tail(s), <<>>)
         ELSE NameWords(Tail(s), word \o <<LowerChar(Head(s))>>)

SameName(a, b) == NameWords(a, <<>>) = NameWords(b, <<>>)

NamedLike(columns, w) == {i \in 1..Len(columns) : SameName(columns[i], w)}

RenewalWanted == <<RENEWAL_COLUMN>> \o RenewalAliases

RenewalNameHits(columns) ==
    {k \in 1..Len(RenewalWanted) : NamedLike(columns, RenewalWanted[k]) # {}}

\* C4: a name is resolved to a header that matches it after trimming,
\* collapsing blanks and case folding, the target before its aliases in order,
\* else not found; the renewal column falls back to the 13th column only when
\* no name matches and there are at least 13 columns; the partner column is
\* resolved by name only.
C4_ColumnResolution ==
    LET cols == df.columns
        hits == RenewalNameHits(cols)
        k    == CHOOSE x \in hits : \A y \in hits : x <= y
    IN  /\ "partner" \in resolution.ran =>
              IF NamedLike(cols, DealershipGroupName) = {}
              THEN resolution.partner_col = None
              ELSE \E i \in NamedLike(cols, DealershipGroupName) :
                        resolution.partner_col = cols[i]
        /\ "renewal" \in resolution.ran =>
              IF hits # {}
              THEN \E i \in NamedLike(cols, RenewalWanted[k]) :
                        resolution.renewal_col = cols[i]
              ELSE IF Len(cols) >= 13
                   THEN resolution.renewal_col = cols[13]
                   ELSE resolution.renewal_col = None

\* both resolutions ran on 13 or more headers none of which matches a wanted
\* name: the renewal column is the 13th, the partner column is not found
C4_Witness ==
    /\ resolution.ran = {"partner", "renewal"}
    /\ Len(df.columns) >= 13
    /\ RenewalNameHits(df.columns) = {}
    /\ NamedLike(df.columns, DealershipGroupName) = {}
    /\ resolution.renewal_col = df.columns[13]
    /\ resolution.partner_col = None

-----------------------------------------------------------------------------
(* Properties of the pipeline (SpecPipeline) *)

SrcOf(rows) == {rows[i].src : i \in 1..Len(rows)}

BucketSizes(v) ==
    Len(v.buckets["overdue"]) + Len(v.buckets["in_30"]) + Len(v.buckets["in_60"])
    + Len(v.buckets["in_90"]) + Len(v.buckets["over_90"])

BucketsHolding(v, src) == {b \in BucketNames : src \in SrcOf(v.buckets[b])}

\* C1 as stated: the five buckets partition the rows normalize_partners
\* retained.
C1_PartitionOfRetained ==
    view.normalized =>
        /\ BucketSizes(view) = Len(view.partners)
        /\ \A src \in SrcOf(view.partners) : Cardinality(BucketsHolding(view, src)) = 1

\* C1, amended: the five buckets partition the rows that remain after
\* apply_filters, which are rows normalize_partners retained; each such row
\* lies in exactly one bucket and the bucket sizes add up to their number.
C1_PartitionOfFiltered ==
    view.normalized =>
        /\ BucketSizes(view) = Len(view.filtered)
        /\ \A src \in SrcOf(view.filtered) : Cardinality(BucketsHolding(view, src)) = 1
        /\ \A b \in BucketNames : SrcOf(view.buckets[b]) \subseteq SrcOf(view.filtered)
        /\ SrcOf(view.filtered) \subseteq SrcOf(view.partners)

\* a run whose filters removed a retained row and left one to be bucketed
C1_Witness ==
    /\ view.normalized
    /\ Len(view.filtered) < Len(view.partners)
    /\ \E b \in BucketNames : view.buckets[b] # <<>>

\* the raw cell of an input row under the resolved column
RawCell(src, col) == df.rows[src][ColIndex(df.columns, col)]

\* C2: every row normalize_partners returns has a partner name that is not
\* empty after trimming and a parsed renewal date, and every input row with a
\* missing, empty or blank name or an unparseable date is absent.
C2_RetainedRowsAreComplete ==
    view.normalized =>
        /\ \A i \in 1..Len(view.partners) :
              /\ view.partners[i].name # NaN
              /\ Strip(view.partners[i].name) # <<>>
              /\ ~IsNA(view.partners[i].renewal)
        /\ \A src \in 1..Len(df.rows) :
              LET name == RawCell(src, resolution.partner_col)
                  date == RawCell(src, resolution.renewal_col)
              IN  (name = NaN \/ Strip(AsStr(name)) = <<>>
                     \/ IsNA(RenewalDateWorking(date)))
                  => src \notin SrcOf(view.partners)

\* C3: the cohort of every row is one of the two labels, and is the Facebook
\* cohort exactly when the table has a CPL column and the row's CPL coerces to
\* 15 or 18; "18.0" counts, "15.5", "N/A" and a missing value do not.
C3_CohortByCPL ==
    view.normalized =>
        \A i \in 1..Len(view.partners) :
            LET r   == view.partners[i]
                has == HasColumn(df.columns, CPLColumn)
                raw == IF has THEN RawCell(r.src, CPLColumn) ELSE NaN
            IN  /\ r.cohort \in {"Facebook Group cohort", "All Other Partners"}
                /\ r.cohort = "Facebook Group cohort"
                      <=> (has /\ to_numeric(raw) \in {<<1500>>, <<1800>>})
                /\ raw \in {<<"1","5">>, <<"1","8">>, <<"1","8",".","0">>}
                      => r.cohort = "Facebook Group cohort"
                /\ raw \in {NaN, Txt_NA, <<"1","5",".","5">>, <<"7">>}
                      => r.cohort = "All Other Partners"

\* a table with a CPL column holding a Facebook row and a row whose CPL is
\* not a number
C3_Witness ==
    /\ view.normalized
    /\ HasColumn(df.columns, CPLColumn)
    /\ \E i, j \in 1..Len(view.partners) :
          /\ view.partners[i].cohort = FACEBOOK_COHORT
          /\ view.partners[j].cohort = OTHER_COHORT
          /\ IsNA(view.partners[j].cpl_numeric)

RECURSIVE CostTotal(_)
CostTotal(rows) ==
    IF rows = <<>> THEN 0
    ELSE (IF Head(rows).cost_numeric = <<>> THEN 0 ELSE Head(rows).cost_numeric[1])
         + CostTotal(Tail(rows))

Unpriced(columns, src) ==
    \/ ~HasColumn(columns, CostColumn)
    \/ RawCell(src, CostColumn) \in {NaN, Txt_Empty, Txt_NA}

\* C7: the revenue shown for a bucket is the sum of the cleaned monthly costs
\* of its rows, a row without a value counting as zero, in the currency
\* format; the cleaned value kept on a row whose cost is empty, unparseable or
\* absent stays "no value", in the normalized table and in every bucket.
C7_RevenueCountsNoValueAsZero ==
    view.normalized =>
        /\ \A b \in BucketNames :
              /\ view.revenue[b] = format_currency(CostTotal(view.buckets[b]))
              /\ \A i \in 1..Len(view.buckets[b]) :
                    Unpriced(df.columns, view.buckets[b][i].src)
                        => view.buckets[b][i].cost_numeric = NoValue
        /\ \A i \in 1..Len(view.partners) :
              /\ Unpriced(df.columns, view.partners[i].src)
                    => view.partners[i].cost_numeric = NoValue
              /\ HasColumn(df.columns, CostColumn)
                   /\ RawCell(view.partners[i].src, CostColumn)
                        = <<"£","1",",","2","5","0",".","5","0">>
                    => view.partners[i].cost_numeric = <<125050>>

\* a bucket holding a priced row and a row without a value
C7_Witness ==
    /\ view.normalized
    /\ \E b \in BucketNames :
          /\ \E i, j \in 1..Len(view.buckets[b]) :
                /\ IsNA(view.buckets[b][i].cost_numeric)
                /\ ~IsNA(view.buckets[b][j].cost_numeric)
          /\ view.revenue[b] # <<"£", "0">>

ByDateThenName(rows) ==
    \A i, j \in 1..Len(rows) :
        i < j =>
            \/ rows[i].renewal[1] < rows[j].renewal[1]
            \/ /\ rows[i].renewal[1] = rows[j].renewal[1]
               /\ ~StrLess(rows[j].name, rows[i].name)

\* C8: the table normalize_partners returns, every bucket, and every table
\* display_partner_table shows and exports are ordered by renewal date
\* ascending, then partner name ascending.
C8_OrderedByDateThenName ==
    view.normalized =>
        /\ ByDateThenName(view.partners)
        /\ \A b \in BucketNames :
              /\ ByDateThenName(view.buckets[b])
              /\ \A c \in Cohorts : ByDateThenName(view.by_cohort[b].tables[c])

\* the tables display_partner_table shows and exports, taken alone, are in
\* that order: it sorts on the calendar date
DisplayedTablesByDateThenName ==
    view.normalized =>
        \A b \in BucketNames : \A c \in Cohorts :
            ByDateThenName(view.by_cohort[b].tables[c])

-----------------------------------------------------------------------------
(* Properties of the script runs (SpecMain) *)

Loaded == page.read \in {"file_read", "file_cache", "live_read", "live_cache"}

SourceUnavailable ==
    \/ page.inputs.source = ExcelSource /\ ~page.inputs.file_exists
    \/ /\ page.inputs.source = LiveSource
       /\ \/ Strip(page.inputs.sheet_id) = <<>>
          \/ page.inputs.creds_mode = PathMode /\ ~page.inputs.creds_file_exists
          \/ page.inputs.creds_mode = JsonMode /\ ~secrets
    \/ page.read = "live_failed"

Unresolved(columns) ==
    (IF NamedLike(columns, DealershipGroupName) = {}
     THEN <<DealershipGroupName>> ELSE <<>>)
    \o (IF RenewalNameHits(columns) = {} /\ Len(columns) < 13
        THEN <<RENEWAL_COLUMN>> ELSE <<>>)

\* C5: a run in which the source is unavailable (file missing, sheet id or
\* credentials missing, the live read fails) or a required column cannot be
\* resolved reports the failure and stops before normalize_partners, with no
\* table, bucket or metric; the missing-column report names the missing
\* columns and lists the columns found.  (An Excel file that exists but cannot
\* be read ends the run with the framework's exception report.)
C5_FailuresAreFatal ==
    (page.signed_in /\ page.kind \in {"error", "exception", "dashboard"}) =>
        /\ SourceUnavailable =>
              /\ page.kind = "error" /\ page.error # ""
              /\ view = NoView /\ df = EmptyFrame
        /\ page.read = "file_failed" => page.kind = "exception" /\ view = NoView
        /\ page.read = "live_read" => sheet.reachable
        /\ page.read = "file_read" => excel.exists /\ excel.readable
        /\ (Loaded /\ Unresolved(df.columns) # <<>>) =>
              /\ page.kind = "error" /\ page.error = "missing_columns"
              /\ page.missing = Unresolved(df.columns)
              /\ page.found = df.columns
              /\ view = NoView
        /\ page.kind = "dashboard" => Loaded /\ view.normalized

\* a table was loaded, a required column was not found in it, and the report
\* names it beside the columns found
C5_Witness ==
    /\ page.kind = "error"
    /\ page.error = "missing_columns"
    /\ Loaded
    /\ page.missing # <<>>
    /\ page.found # <<>>
    /\ view = NoView

\* C6: a cached raw table is served only within the freshness window, for the
\* file source and for the live source, and a manual refresh empties every
\* cache entry.
C6_CacheIsTimeBounded ==
    /\ page.read \in {"file_cache", "live_cache"} => page.cache_age <= TTL
    /\ (rerun /\ page.kind = "header" /\ page.inputs.source = LiveSource)
          => cache = EmptyCache

\* the part of C6 that holds: the live source's cache, and the refresh
LiveCacheIsTimeBounded ==
    /\ page.read = "live_cache" => page.cache_age < TTL
    /\ (rerun /\ page.kind = "header" /\ page.inputs.source = LiveSource)
          => cache = EmptyCache

InBucket(b, days) ==
    CASE b = "overdue" -> days < 0
      [] b = "in_30"   -> days >= 0 /\ days <= 30
      [] b = "in_60"   -> days >= 31 /\ days <= 60
      [] b = "in_90"   -> days >= 61 /\ days <= 90
      [] b = "over_90" -> days > 90

\* C9: in every run that renders, also one served from the raw-table cache,
\* the days-to-renewal of every row is the whole number of days from the as-of
\* date selected in that run to the row's renewal date, and the row sits in
\* the bucket of that number.  (On 2024-01-10, a renewal on 2024-01-01 is 9
\* days overdue.)
C9_DaysFollowCurrentAsOf ==
    page.kind = "dashboard" =>
        /\ as_of_date = page.inputs.as_of
        /\ \A i \in 1..Len(view.partners) :
              LET r == view.partners[i]
              IN  /\ r.days = r.renewal[1] - page.inputs.as_of
                  /\ (page.inputs.as_of = DaysFromCivil(2024, 1, 10)
                        /\ r.renewal[1] = DaysFromCivil(2024, 1, 1)) => r.days = 0 - 9
        /\ \A b \in BucketNames : \A i \in 1..Len(view.buckets[b]) :
              InBucket(b, view.buckets[b][i].renewal[1] - page.inputs.as_of)

\* a run served from the cache of the live table under the later as-of date,
\* by which every partner is overdue
C9_Witness ==
    /\ page.kind = "dashboard"
    /\ page.read = "live_cache"
    /\ page.inputs.as_of = DaysFromCivil(2024, 4, 10)
    /\ Len(view.buckets["overdue"]) = 2
    /\ view.buckets["overdue"][1].days < 0

ValidSubmission(inputs) ==
    inputs.submit /\ Strip(inputs.name) = ALLOWED_NAME /\ inputs.pin = ALLOWED_PIN

\* C10: a run reads a source or renders dashboard content only when the
\* session was authenticated as it began; the flag becomes true only by a
\* submission of the allowed name (trimmed) and PIN; a failed or empty
\* submission leaves the session unauthenticated; Logout clears the flag and
\* the viewer name, and the next run shows only the login form.
C10_LoginGuardsTheDashboard ==
    /\ [](/\ ~session_state.authenticated => session_state.viewer_name = <<>>
          /\ (Loaded \/ page.read # "none" \/ view.normalized
                \/ page.kind \in {"dashboard", "error", "exception"}) => page.signed_in
          /\ page.kind = "login" =>
                /\ ~page.signed_in /\ view = NoView /\ df = EmptyFrame
                /\ page.read = "none"
          /\ (page.kind = "login" /\ page.inputs.submit /\ ~ValidSubmission(page.inputs))
                => ~session_state.authenticated)
    /\ [][/\ (~session_state.authenticated /\ session_state'.authenticated)
                => page'.kind = "login" /\ ValidSubmission(page'.inputs)
          /\ ~session_state.authenticated => cache' = cache
          /\ (session_state.authenticated /\ ~session_state'.authenticated)
                => session_state'.viewer_name = <<>> /\ rerun'
          /\ (~session_state.authenticated /\ page' # page) => page'.kind = "login"
         ]_vars

\* signed in, looked at the live dashboard, logged out: the login form is
\* shown while the table read before is still cached
C10_Witness ==
    /\ ~session_state.authenticated
    /\ page.kind = "login"
    /\ ~rerun
    /\ cache.live.present

=============================================================================
